---- MODULE Spec2Model ----
(***************************************************************************)
(* Model of src/app.py: the /generate-post pipeline.                       *)
(*                                                                         *)
(* A request runs generate_content(topic): one blocking call to the news   *)
(* service (get_recent_news), then three blocking calls to the generation  *)
(* service (title, meta-description, body).  Every blocking call is a      *)
(* point where the request waits, so an action of the model is the code    *)
(* that runs from the return of one outbound call to the issue of the next *)
(* (or to the HTTP response).  Two requests are in flight so that pairwise *)
(* statements (equal titles, isolation) can be checked.                    *)
(*                                                                         *)
(* Text is a sequence of one-character strings; the fixed parts of the     *)
(* f-string templates are single tokens.                                   *)
(***************************************************************************)
EXTENDS Integers, Sequences, FiniteSets, TLC

\* ---------------------------------------------------------------- bounds
\* Longest item list the news service answers with.
MaxItems == 6

\* news_data[:5]
SliceLen == 5

\* status code of HTTPException raised by the service
ServerError == 500

\* requests in flight
Reqs == {"r1", "r2"}

\* ------------------------------------------------------------ text values
\* Python None (an unset local, a null message content)
None == <<"<None>">>

NL == "\n"

Whitespace == {" ", NL}

\* "Свежих новостей не найдено."
Sentinel == <<"<no-fresh-news>">>

Topics == {<<"x">>, <<"y">>}

\* title of the i-th item of a news answer
TitleAt(i) == IF i % 2 = 1 THEN <<"a">> ELSE <<"b", "c">>

NewsList(n) == [i \in 1..n |-> [title |-> TitleAt(i)]]

\* the item lists the news service answers with: empty, one item, the slice
\* boundary and one past it, and one list in another order
NewsLists ==
    {NewsList(n) : n \in {0, 1, MaxItems - 1, MaxItems}}
        \cup {<<[title |-> <<"b", "c">>], [title |-> <<"a">>], [title |-> <<"a">>]>>}

\* answers of requests.get: a RequestException (timeout, transport), a
\* non-200 status, or 200 with a JSON body
NewsResponses ==
    {[exc |-> <<"timeout">>, status |-> 0, text |-> None, news |-> <<>>]}
        \cup {[exc |-> None, status |-> 429, text |-> <<"quota">>, news |-> <<>>]}
        \cup {[exc |-> None, status |-> 200, text |-> <<"json">>, news |-> l] : l \in NewsLists}

\* raw generated texts (with and without surrounding whitespace)
GenTexts == {<<"a">>, <<" ", "a", NL>>, <<"b">>}

\* answers of client.chat.completions.create: an exception, a completion
\* whose message content is null, or a completion with text
GenResponses ==
    {[exc |-> <<"apierror">>, content |-> None]}
        \cup {[exc |-> None, content |-> None]}
        \cup {[exc |-> None, content |-> t] : t \in GenTexts}

NoResponse == [kind |-> "none", status |-> 0, detail |-> None,
               title |-> None, meta_description |-> None, post_content |-> None]

VARIABLES pc, topic, recent_news, title, meta_description, post_content,
          calls, resps, response

vars == <<pc, topic, recent_news, title, meta_description, post_content,
          calls, resps, response>>

\* --------------------------------------------------------- pure functions
RECURSIVE LStrip(_)
LStrip(s) == IF s # <<>> /\ Head(s) \in Whitespace THEN LStrip(Tail(s)) ELSE s

RECURSIVE RStrip(_)
RStrip(s) ==
    IF s # <<>> /\ s[Len(s)] \in Whitespace THEN RStrip(SubSeq(s, 1, Len(s) - 1)) ELSE s

\* str.strip()
Strip(s) == RStrip(LStrip(s))

\* news_data[:5]
Slice(l) == SubSeq(l, 1, IF Len(l) < SliceLen THEN Len(l) ELSE SliceLen)

\* [article["title"] for article in ...]
Titles(l) == [i \in 1..Len(l) |-> l[i].title]

\* "\n".join(titles)
RECURSIVE Join(_)
Join(ts) ==
    IF ts = <<>> THEN <<>>
    ELSE IF Len(ts) = 1 THEN ts[1]
    ELSE ts[1] \o <<NL>> \o Join(Tail(ts))


\* --------------------------------------------------------- get_recent_news
\* an HTTPException raised by the handler code
Raised(detail) == [raised |-> TRUE, value |-> None, detail |-> detail]

Returned(v) == [raised |-> FALSE, value |-> v, detail |-> None]

\* f"Ошибка при получении данных: {response.text}"
StatusDetail(text) == <<"<news-status-error>">> \o text

\* f"Ошибка запроса к Currents API: {str(e)}"
RequestDetail(e) == <<"<news-request-error>">> \o e

\* variant: the slice keeps one item too many
DigestSliceOff(news_data) ==
    Join(Titles(SubSeq(news_data, 1, IF Len(news_data) < SliceLen + 1
                                      THEN Len(news_data) ELSE SliceLen + 1)))

\* lines 54-56: the digest of a non-empty item list
Digest(news_data) == Join(Titles(Slice(news_data)))

\* variant: a transport exception degrades to the sentinel
get_recent_news_SwallowExc(resp) ==
    IF resp.exc # None THEN Returned(Sentinel)
    ELSE IF resp.status # 200 THEN Raised(StatusDetail(resp.text))
    ELSE IF resp.news = <<>> THEN Returned(Sentinel)
    ELSE Returned(Digest(resp.news))

\* variant: a non-200 status degrades to the sentinel
get_recent_news_SwallowStatus(resp) ==
    IF resp.exc # None THEN Raised(RequestDetail(resp.exc))
    ELSE IF resp.status # 200 THEN Returned(Sentinel)
    ELSE IF resp.news = <<>> THEN Returned(Sentinel)
    ELSE Returned(Digest(resp.news))

\* variant: the empty-list test is missing
get_recent_news_NoEmptyTest(resp) ==
    IF resp.exc # None THEN Raised(RequestDetail(resp.exc))
    ELSE IF resp.status # 200 THEN Raised(StatusDetail(resp.text))
    ELSE Returned(Digest(resp.news))

\* lines 41-60, from the return of requests.get on
get_recent_news(resp) ==
    IF resp.exc # None THEN Raised(RequestDetail(resp.exc))
    ELSE IF resp.status # 200 THEN Raised(StatusDetail(resp.text))
    ELSE IF resp.news = <<>> THEN Returned(Sentinel)
    ELSE Returned(Digest(resp.news))

\* -------------------------------------------------------- generate_content
\* line 74
TitlePrompt(t, news, ttl, meta) ==
    <<"<title:topic=">> \o t \o <<"<title:news=">> \o news \o <<"<title:end>">>

\* variant: the meta prompt also interpolates the topic
MetaPromptWithTopic(t, news, ttl, meta) ==
    <<"<meta:title=">> \o ttl \o <<"<meta:topic=">> \o t \o <<"<meta:end>">>

\* line 88
MetaPrompt(t, news, ttl, meta) ==
    <<"<meta:title=">> \o ttl \o <<"<meta:end>">>

\* variant: the body prompt also interpolates the generated title
BodyPromptWithTitle(t, news, ttl, meta) ==
    <<"<body:topic=">> \o t \o <<"<body:news=">> \o news \o <<"<body:title=">>
        \o ttl \o <<"<body:end>">>

\* lines 102-112
BodyPrompt(t, news, ttl, meta) ==
    <<"<body:topic=">> \o t \o <<"<body:news=">> \o news \o <<"<body:end>">>

\* str(e) of the AttributeError raised by None.strip()
NoneStripError == <<"<NoneType-has-no-strip>">>

\* variant: the content is used without .strip(), so a null content is kept
CompletionNoStrip(resp) ==
    IF resp.exc # None THEN [raised |-> TRUE, value |-> None, cause |-> resp.exc]
    ELSE [raised |-> FALSE, value |-> resp.content, cause |-> None]

\* resp.choices[0].message.content.strip() inside the try block
Completion(resp) ==
    IF resp.exc # None THEN [raised |-> TRUE, value |-> None, cause |-> resp.exc]
    ELSE IF resp.content = None
         THEN [raised |-> TRUE, value |-> None, cause |-> NoneStripError]
    ELSE [raised |-> FALSE, value |-> Strip(resp.content), cause |-> None]

\* the response FastAPI sends for an HTTPException
ErrorResponse(status, detail) ==
    [kind |-> "error", status |-> status, detail |-> detail,
     title |-> None, meta_description |-> None, post_content |-> None]

\* lines 122-126
ArticleResponse(ttl, meta, post) ==
    [kind |-> "article", status |-> 200, detail |-> None,
     title |-> ttl, meta_description |-> meta, post_content |-> post]

\* f"Ошибка при генерации контента: {str(e)}"
GenerationDetail(e) == <<"<generation-error>">> \o e

\* variant: the except block returns what was generated so far
OnGenerationErrorPartial(ttl, meta, e) == ArticleResponse(ttl, meta, None)

\* lines 128-130
OnGenerationError(ttl, meta, e) == ErrorResponse(ServerError, GenerationDetail(e))

\* variant: the value lives in a module-level global shared by all requests
Global(f, r, v) == [q \in Reqs |-> v]

\* assignment to a local of request r's call frame
Local(f, r, v) == [f EXCEPT ![r] = v]

NewsCall(t) == [svc |-> "news", arg |-> t]

GenCall(prompt) == [svc |-> "gen", arg |-> prompt]

\* ------------------------------------------------------------------- state
Init ==
    /\ pc = [r \in Reqs |-> "idle"]
    /\ topic = [r \in Reqs |-> None]
    /\ recent_news = [r \in Reqs |-> None]
    /\ title = [r \in Reqs |-> None]
    /\ meta_description = [r \in Reqs |-> None]
    /\ post_content = [r \in Reqs |-> None]
    /\ calls = [r \in Reqs |-> <<>>]
    /\ resps = [r \in Reqs |-> <<>>]
    /\ response = [r \in Reqs |-> NoResponse]

\* POST /generate-post arrives; generate_content runs up to requests.get
Receive(r) ==
    /\ pc[r] = "idle"
    /\ \E t \in Topics :
        /\ topic' = Local(topic, r, t)
        /\ calls' = [calls EXCEPT ![r] = Append(@, NewsCall(t))]
    /\ pc' = [pc EXCEPT ![r] = "news_wait"]
    /\ UNCHANGED <<recent_news, title, meta_description, post_content, resps, response>>

\* requests.get returns; the rest of get_recent_news, then the title call
NewsReturn(r) ==
    /\ pc[r] = "news_wait"
    /\ \E resp \in NewsResponses :
        LET res == get_recent_news(resp) IN
        /\ resps' = [resps EXCEPT ![r] = Append(@, resp)]
        /\ IF res.raised
           THEN /\ response' = [response EXCEPT ![r] = ErrorResponse(ServerError, res.detail)]
                /\ pc' = [pc EXCEPT ![r] = "done"]
                /\ UNCHANGED <<recent_news, calls>>
           ELSE /\ recent_news' = Local(recent_news, r, res.value)
                /\ calls' = [calls EXCEPT ![r] =
                       Append(@, GenCall(TitlePrompt(topic[r], res.value, title[r],
                                                     meta_description[r])))]
                /\ pc' = [pc EXCEPT ![r] = "title_wait"]
                /\ UNCHANGED response
    /\ UNCHANGED <<topic, title, meta_description, post_content>>

\* variant: a failed title call is swallowed and the pipeline goes on
TitleReturnContinue(r) ==
    /\ pc[r] = "title_wait"
    /\ \E resp \in GenResponses :
        LET c == Completion(resp) IN
        /\ resps' = [resps EXCEPT ![r] = Append(@, resp)]
        /\ title' = Local(title, r, IF c.raised THEN <<>> ELSE c.value)
        /\ calls' = [calls EXCEPT ![r] =
               Append(@, GenCall(MetaPrompt(topic[r], recent_news[r],
                                            IF c.raised THEN <<>> ELSE c.value,
                                            meta_description[r])))]
        /\ pc' = [pc EXCEPT ![r] = "meta_wait"]
        /\ UNCHANGED response
    /\ UNCHANGED <<topic, recent_news, meta_description, post_content>>

\* the title call returns (lines 70-81), then the meta-description call
TitleReturn(r) ==
    /\ pc[r] = "title_wait"
    /\ \E resp \in GenResponses :
        LET c == Completion(resp) IN
        /\ resps' = [resps EXCEPT ![r] = Append(@, resp)]
        /\ IF c.raised
           THEN /\ response' = [response EXCEPT ![r] =
                       OnGenerationError(title[r], meta_description[r], c.cause)]
                /\ pc' = [pc EXCEPT ![r] = "done"]
                /\ UNCHANGED <<title, calls>>
           ELSE /\ title' = Local(title, r, c.value)
                /\ calls' = [calls EXCEPT ![r] =
                       Append(@, GenCall(MetaPrompt(topic[r], recent_news[r], c.value,
                                                    meta_description[r])))]
                /\ pc' = [pc EXCEPT ![r] = "meta_wait"]
                /\ UNCHANGED response
    /\ UNCHANGED <<topic, recent_news, meta_description, post_content>>

\* variant: a failed meta-description call is issued once more
MetaReturnRetry(r) ==
    /\ pc[r] = "meta_wait"
    /\ \E resp \in GenResponses :
        LET c == Completion(resp) IN
        /\ resps' = [resps EXCEPT ![r] = Append(@, resp)]
        /\ IF c.raised /\ Len(calls[r]) < 4
           THEN /\ calls' = [calls EXCEPT ![r] = Append(@, calls[r][Len(calls[r])])]
                /\ UNCHANGED <<meta_description, pc, response>>
           ELSE IF c.raised
           THEN /\ response' = [response EXCEPT ![r] =
                       OnGenerationError(title[r], meta_description[r], c.cause)]
                /\ pc' = [pc EXCEPT ![r] = "done"]
                /\ UNCHANGED <<meta_description, calls>>
           ELSE /\ meta_description' = Local(meta_description, r, c.value)
                /\ calls' = [calls EXCEPT ![r] =
                       Append(@, GenCall(BodyPrompt(topic[r], recent_news[r], title[r],
                                                    c.value)))]
                /\ pc' = [pc EXCEPT ![r] = "body_wait"]
                /\ UNCHANGED response
    /\ UNCHANGED <<topic, recent_news, title, post_content>>

\* the meta-description call returns (lines 84-95), then the body call
MetaReturn(r) ==
    /\ pc[r] = "meta_wait"
    /\ \E resp \in GenResponses :
        LET c == Completion(resp) IN
        /\ resps' = [resps EXCEPT ![r] = Append(@, resp)]
        /\ IF c.raised
           THEN /\ response' = [response EXCEPT ![r] =
                       OnGenerationError(title[r], meta_description[r], c.cause)]
                /\ pc' = [pc EXCEPT ![r] = "done"]
                /\ UNCHANGED <<meta_description, calls>>
           ELSE /\ meta_description' = Local(meta_description, r, c.value)
                /\ calls' = [calls EXCEPT ![r] =
                       Append(@, GenCall(BodyPrompt(topic[r], recent_news[r], title[r],
                                                    c.value)))]
                /\ pc' = [pc EXCEPT ![r] = "body_wait"]
                /\ UNCHANGED response
    /\ UNCHANGED <<topic, recent_news, title, post_content>>

\* the body call returns (lines 98-130); the handler answers the request
BodyReturn(r) ==
    /\ pc[r] = "body_wait"
    /\ \E resp \in GenResponses :
        LET c == Completion(resp) IN
        /\ resps' = [resps EXCEPT ![r] = Append(@, resp)]
        /\ IF c.raised
           THEN /\ response' = [response EXCEPT ![r] =
                       OnGenerationError(title[r], meta_description[r], c.cause)]
                /\ UNCHANGED post_content
           ELSE /\ post_content' = Local(post_content, r, c.value)
                /\ response' = [response EXCEPT ![r] =
                       ArticleResponse(title[r], meta_description[r], c.value)]
    /\ pc' = [pc EXCEPT ![r] = "done"]
    /\ UNCHANGED <<topic, recent_news, title, meta_description, calls>>

Next ==
    \E r \in Reqs :
        \/ Receive(r)
        \/ NewsReturn(r)
        \/ TitleReturn(r)
        \/ MetaReturn(r)
        \/ BodyReturn(r)

Spec == Init /\ [][Next]_vars

TypeOK ==
    /\ pc \in [Reqs -> {"idle", "news_wait", "title_wait", "meta_wait", "body_wait", "done"}]
    /\ \A r \in Reqs : Len(calls[r]) <= 4 /\ Len(resps[r]) <= 4


\* ----------------------------------------------------- reading the history
Done(r) == pc[r] = "done"

\* the news answer request r received was a failure
NewsFailed(r) ==
    /\ Len(resps[r]) >= 1
    /\ resps[r][1].exc # None \/ resps[r][1].status # 200

\* a generation answer that makes the step fail
GenFailed(x) == x.exc # None \/ x.content = None

\* the cause a failed generation answer carries
CauseOf(x) == IF x.exc # None THEN x.exc ELSE <<"<NoneType-has-no-strip>">>

\* request r received the answer of generation step k and it failed
StepFailed(r, k) == Len(resps[r]) >= k + 1 /\ GenFailed(resps[r][k + 1])

\* request r received the answer of generation step k and it succeeded
StepOK(r, k) == Len(resps[r]) >= k + 1 /\ ~GenFailed(resps[r][k + 1])

NoArticle(r) ==
    /\ response[r].title = None
    /\ response[r].meta_description = None
    /\ response[r].post_content = None

\* ------------------------------------------------------------------ claims

\* C1: a finished request has answered either with an article whose three
\* fields are all set, or with an error and no article field at all; a
\* request that has not finished has answered nothing.
C1_AllOrNothing ==
    \A r \in Reqs :
        IF Done(r)
        THEN \/ /\ response[r].kind = "article"
                /\ response[r].title # None
                /\ response[r].meta_description # None
                /\ response[r].post_content # None
                /\ response[r].detail = None
             \/ /\ response[r].kind = "error"
                /\ NoArticle(r)
        ELSE response[r] = NoResponse

C1_Witness ==
    \E r, q \in Reqs :
        /\ Done(r) /\ response[r].kind = "article"
        /\ Done(q) /\ StepOK(q, 1) /\ StepOK(q, 2) /\ StepFailed(q, 3)

C3_AbortOnFailure ==
    \A r \in Reqs : \A k \in 1..3 :
        StepFailed(r, k) =>
            /\ Len(resps[r]) = k + 1
            /\ Len(calls[r]) = k + 1
            /\ Done(r)
            /\ response[r].kind = "error"
            /\ response[r].status = 500
            /\ response[r].detail = <<"<generation-error>">> \o CauseOf(resps[r][k + 1])

C3_Witness ==
    \E r, q \in Reqs :
        /\ StepFailed(r, 1) /\ Done(r) /\ Len(calls[r]) = 2
        /\ StepFailed(q, 2) /\ Done(q)

\* C4: when steps 1 and 2 succeed and step 3 fails, the title and the
\* meta-description calls were issued and their stripped answers are bound,
\* yet the response is an error with no article field.
C4_PartialDiscarded ==
    \A r \in Reqs :
        (StepOK(r, 1) /\ StepOK(r, 2) /\ StepFailed(r, 3)) =>
            /\ Len(calls[r]) = 4
            /\ calls[r][2].svc = "gen" /\ calls[r][3].svc = "gen"
            /\ title[r] # None /\ title[r] = Strip(resps[r][2].content)
            /\ meta_description[r] # None
            /\ meta_description[r] = Strip(resps[r][3].content)
            /\ Done(r)
            /\ response[r].kind = "error"
            /\ NoArticle(r)

C4_Witness ==
    \E r \in Reqs :
        /\ StepOK(r, 1) /\ StepOK(r, 2) /\ StepFailed(r, 3)
        /\ title[r] = <<"a">> /\ response[r].kind = "error"

\* offset of the i-th title in the newline-joined digest of items l
RECURSIVE Offset(_, _)
Offset(l, i) == IF i = 1 THEN 0 ELSE Offset(l, i - 1) + Len(l[i - 1].title) + 1

\* C5: for a 200 answer with n >= 1 items the digest is, position by
\* position, the titles of items 1..min(n, 5) in order, each followed by one
\* newline except the last, and nothing else.
C5_Digest ==
    \A r \in Reqs :
        (Len(resps[r]) >= 1 /\ ~NewsFailed(r) /\ Len(resps[r][1].news) >= 1) =>
            LET l == resps[r][1].news
                m == IF Len(l) < 5 THEN Len(l) ELSE 5
                d == recent_news[r]
            IN  /\ Len(d) = Offset(l, m) + Len(l[m].title)
                /\ \A i \in 1..m :
                      /\ SubSeq(d, Offset(l, i) + 1, Offset(l, i) + Len(l[i].title))
                            = l[i].title
                      /\ i < m => d[Offset(l, i) + Len(l[i].title) + 1] = "\n"

C5_Witness ==
    \E r, q \in Reqs :
        /\ Len(resps[r]) >= 1 /\ ~NewsFailed(r) /\ Len(resps[r][1].news) > 5
        /\ recent_news[r] # None
        /\ Len(resps[q]) >= 1 /\ ~NewsFailed(q) /\ Len(resps[q][1].news) = 3
        /\ recent_news[q] = <<"b", "c", "\n", "a", "\n", "a">>

\* the news answer request r received was a 200 with no items
NewsEmpty(r) ==
    Len(resps[r]) >= 1 /\ ~NewsFailed(r) /\ resps[r][1].news = <<>>

\* C6: after a 200 answer with no items the digest is the sentinel, the
\* title call is issued with the sentinel in its prompt, the body call (once
\* issued) carries the sentinel too, the request can only end in error
\* through a failed generation step, and with three successful generation
\* answers it has issued all three generation calls and returns the article.
C6_EmptyNews ==
    \A r \in Reqs :
        NewsEmpty(r) =>
            /\ recent_news[r] = Sentinel
            /\ Len(calls[r]) >= 2
            /\ calls[r][2] = [svc |-> "gen", arg |->
                   <<"<title:topic=">> \o topic[r] \o <<"<title:news=">>
                       \o Sentinel \o <<"<title:end>">>]
            /\ Len(calls[r]) >= 4 =>
                   calls[r][4] = [svc |-> "gen", arg |->
                       <<"<body:topic=">> \o topic[r] \o <<"<body:news=">>
                           \o Sentinel \o <<"<body:end>">>]
            /\ response[r].kind = "error" => \E k \in 1..3 : StepFailed(r, k)
            /\ (StepOK(r, 1) /\ StepOK(r, 2) /\ StepOK(r, 3)) =>
                   /\ Len(calls[r]) = 4
                   /\ response[r].kind = "article"

C6_Witness ==
    \E r \in Reqs : NewsEmpty(r) /\ Done(r) /\ response[r].kind = "article"

\* C7: two requests that bound equal titles sent identical meta-description
\* prompts, and two requests with equal topic and equal digest sent
\* identical body prompts.
C7_PromptInputs ==
    \A r, q \in Reqs :
        /\ (Len(calls[r]) >= 3 /\ Len(calls[q]) >= 3 /\ title[r] = title[q]) =>
              calls[r][3].arg = calls[q][3].arg
        /\ (Len(calls[r]) >= 4 /\ Len(calls[q]) >= 4 /\ topic[r] = topic[q]
                /\ recent_news[r] = recent_news[q]) =>
              calls[r][4].arg = calls[q][4].arg

C7_Witness ==
    \E r, q \in Reqs :
        /\ Len(calls[r]) >= 4 /\ Len(calls[q]) >= 4
        /\ title[r] = title[q]
        /\ resps[r][2] # resps[q][2]
        /\ topic[r] # topic[q]
        /\ recent_news[r] # recent_news[q]

\* C7, second case reached: equal topic and digest, different title and
\* meta-description, both body calls issued.
C7_BodyCaseReached ==
    \E r, q \in Reqs :
        /\ Len(calls[r]) >= 4 /\ Len(calls[q]) >= 4
        /\ topic[r] = topic[q] /\ recent_news[r] = recent_news[q]
        /\ title[r] # title[q] /\ meta_description[r] # meta_description[q]

\* C8: the calls of a request form a prefix of news, title, meta, body; at
\* most one call is outstanding; call k+1 is issued only after call k was
\* answered successfully; a request that returned an article issued exactly
\* one news call and three generation calls.
C8_CallOrder ==
    \A r \in Reqs :
        /\ Len(calls[r]) <= 4
        /\ Len(resps[r]) <= Len(calls[r]) /\ Len(calls[r]) <= Len(resps[r]) + 1
        /\ pc[r] # "idle" => Len(calls[r]) >= 1
        /\ \A k \in 1..Len(calls[r]) :
              /\ k = 1 => calls[r][k] = [svc |-> "news", arg |-> topic[r]]
              /\ k > 1 => calls[r][k].svc = "gen" /\ calls[r][k].arg[1] =
                    (IF k = 2 THEN "<title:topic="
                     ELSE IF k = 3 THEN "<meta:title=" ELSE "<body:topic=")
              /\ k = 2 => ~NewsFailed(r) /\ Len(resps[r]) >= 1
              /\ k > 2 => StepOK(r, k - 2)
        /\ response[r].kind = "article" =>
              /\ Len(calls[r]) = 4 /\ Len(resps[r]) = 4
              /\ Cardinality({k \in 1..4 : calls[r][k].svc = "gen"}) = 3

C8_Witness ==
    \E r, q \in Reqs :
        /\ response[r].kind = "article"
        /\ pc[q] = "meta_wait"

\* what a request's own topic and own answers determine
OwnState(r) ==
    /\ calls[r] # <<>> => calls[r][1].arg = topic[r]
    /\ recent_news[r] # None =>
          /\ Len(resps[r]) >= 1 /\ ~NewsFailed(r)
          /\ resps[r][1].news = <<>> => recent_news[r] = Sentinel
          /\ resps[r][1].news # <<>> =>
                /\ recent_news[r][1] = resps[r][1].news[1].title[1]
                /\ Len(recent_news[r]) =
                      Offset(resps[r][1].news,
                             IF Len(resps[r][1].news) < 5 THEN Len(resps[r][1].news) ELSE 5)
                       + Len(resps[r][1].news[IF Len(resps[r][1].news) < 5
                                               THEN Len(resps[r][1].news) ELSE 5].title)
    /\ title[r] # None => StepOK(r, 1) /\ title[r] = Strip(resps[r][2].content)
    /\ meta_description[r] # None =>
          StepOK(r, 2) /\ meta_description[r] = Strip(resps[r][3].content)
    /\ post_content[r] # None =>
          StepOK(r, 3) /\ post_content[r] = Strip(resps[r][4].content)
    /\ response[r].kind = "article" =>
          /\ StepOK(r, 1) /\ StepOK(r, 2) /\ StepOK(r, 3)
          /\ response[r].title = Strip(resps[r][2].content)
          /\ response[r].meta_description = Strip(resps[r][3].content)
          /\ response[r].post_content = Strip(resps[r][4].content)
    /\ response[r].kind = "error" =>
          \/ NewsFailed(r) /\ Len(resps[r]) = 1
          \/ /\ ~NewsFailed(r)
             /\ GenFailed(resps[r][Len(resps[r])])
             /\ Tail(response[r].detail) = CauseOf(resps[r][Len(resps[r])])

\* everything the model holds for request r
Frame(r) ==
    <<pc[r], topic[r], recent_news[r], title[r], meta_description[r], post_content[r],
      calls[r], resps[r], response[r]>>

\* C9: at every moment each request's digest, title, meta-description, body
\* and response are the ones its own topic and its own answers determine,
\* and a step of one request changes nothing of any other request.
C9_Isolation ==
    /\ [](\A r \in Reqs : OwnState(r))
    /\ [][\A r, q \in Reqs : r # q => (Frame(r)' = Frame(r) \/ Frame(q)' = Frame(q))]_vars

C9_Witness ==
    \E r, q \in Reqs :
        /\ Done(r) /\ response[r].kind = "article" /\ response[r].title = <<"a">>
        /\ Done(q) /\ response[q].kind = "error" /\ StepOK(q, 1) /\ title[q] = <<"b">>

\* C10: after a failed news lookup the request has issued the news call and
\* no generation call, and has ended with status 500 and no article.
C10_NewsFailureFatal ==
    \A r \in Reqs :
        NewsFailed(r) =>
            /\ {k \in 1..Len(calls[r]) : calls[r][k].svc = "gen"} = {}
            /\ Len(calls[r]) = 1
            /\ Done(r)
            /\ response[r].kind = "error"
            /\ response[r].status = 500
            /\ NoArticle(r)

C10_Witness ==
    \E r \in Reqs : Done(r) /\ Len(resps[r]) = 1 /\ resps[r][1].status = 429

====
